---- MODULE Spec2Model ----
(***************************************************************************)
(* Gateway singleton lock (swayambhu/gateway_lock.py).                     *)
(*                                                                         *)
(* Several independent processes import the module; each has its own       *)
(* module global _lock_socket and calls acquire_gateway_lock(port) and     *)
(* release_gateway_lock() from one thread.  The only state the processes   *)
(* share is the kernel's table of TCP sockets on 127.0.0.1.                *)
(*                                                                         *)
(* One acquire call is three kernel-visible steps (socket+setsockopt,      *)
(* bind, listen); the steps of different processes interleave freely.      *)
(***************************************************************************)
EXTENDS Integers, FiniteSets, Sequences

\* ---------------------------------------------------------------- bounds
NumProcs == 2
MaxFds == 2

Procs == 1..NumProcs
Fds == 1..MaxFds

\* Python's None for a socket reference; descriptors start at 1.
None == 0

\* ---------------------------------------------------------------- inputs
\* Port arguments the callers pass: out of range on both sides, the wildcard
\* port 0, a privileged port, and two ordinary ports.
OutOfRangePorts == {-1, 70000}
PrivilegedPorts == {80}
FreePorts == {48900, 48901}
PortArgs == OutOfRangePorts \cup {0} \cup PrivilegedPorts \cup FreePorts

VARIABLES
    alive,          \* alive[p]: process p is running
    pc,             \* pc[p]: "idle" between calls, else the next step of acquire
    arg,            \* arg[p]: <<port>> while p's last call is an acquire (in progress
                    \* or completed), <<>> otherwise
    sock,           \* sock[p]: the local variable sock of the acquire call in progress
    lockSocket,     \* lockSocket[p]: the module global _lock_socket of p
    result,         \* result[p]: outcome of p's last completed call
    freed,          \* history: freed[p] = <<port>> when p's last call is a release()
                    \* that closed a socket bound to port, <<>> otherwise
    sockets,        \* sockets[p][fd]: the kernel's sockets, by owning process
    exclusiveBind   \* platform: TRUE when bind() itself refuses a port that any
                    \* other socket is bound to; FALSE when, with SO_REUSEADDR,
                    \* bind() refuses only a port with a listening socket and
                    \* listen() reports the conflict (Linux)

vars == <<alive, pc, arg, sock, lockSocket, result, freed, sockets, exclusiveBind>>

Results == {"none", "true", "false", "raised", "released"}

FreeSlot == [st |-> "free", reuse |-> FALSE, port |-> 0]

\* ---------------------------------------------------------------- kernel
\* The lowest unused descriptor of process p.
NewFd(p) == CHOOSE s \in Fds : sockets[p][s].st = "free" /\ \A t \in Fds : sockets[p][t].st = "free" => s <= t

HasFreeFd(p) == \E s \in Fds : sockets[p][s].st = "free"

\* Mutant: only the lower end of the port range is checked.
ValidPortNoUpperBound(port) == port >= 0

\* socket.bind raises OverflowError ("port must be 0-65535") before any system call.
ValidPort(port) == port >= 0 /\ port <= 65535

\* Ports below 1024 are refused to an unprivileged process (EACCES).
PermissionDenied(port) == port >= 1 /\ port <= 1023

\* The sockets <<process, descriptor>> of the host bound to 127.0.0.1:port.
BoundOn(port) == {x \in Procs \X Fds : sockets[x[1]][x[2]].st \in {"bound", "listening"} /\ sockets[x[1]][x[2]].port = port}

ListeningOn(port) == {x \in BoundOn(port) : sockets[x[1]][x[2]].st = "listening"}

\* bind of p's socket s to 127.0.0.1:port fails with EADDRINUSE.
BindConflict(p, s, port) ==
    IF exclusiveBind \/ ~sockets[p][s].reuse
    THEN BoundOn(port) \ {<<p, s>>} # {}
    ELSE \E x \in BoundOn(port) \ {<<p, s>>} : sockets[x[1]][x[2]].st = "listening" \/ ~sockets[x[1]][x[2]].reuse

\* Mutant: listen never reports a conflict.
ListenNeverConflicts(p, s) == FALSE

\* listen on p's socket s fails with EADDRINUSE: another socket already listens on the port.
ListenConflict(p, s) == ListeningOn(sockets[p][s].port) \ {<<p, s>>} # {}

\* The ports the kernel may pick for a bind to port 0.
EphemeralChoices(p, s) == {e \in FreePorts : ~BindConflict(p, s, e)}

\* close(s) in process p: the descriptor is free again and the port binding is gone.
CloseSocket(tbl, p, s) == [tbl EXCEPT ![p][s] = FreeSlot]

\* Mutant: a lock that outlives its holder (as a lock file would): teardown
\* leaves the listening sockets in place.
CloseAllButListening(tbl, p) ==
    [tbl EXCEPT ![p] = [s \in Fds |-> IF tbl[p][s].st = "listening" THEN tbl[p][s] ELSE FreeSlot]]

\* Process teardown: the kernel closes every socket the process owns.
CloseAllOf(tbl, p) == [tbl EXCEPT ![p] = [s \in Fds |-> FreeSlot]]

\* ---------------------------------------------------------------- program
Init ==
    /\ alive = [p \in Procs |-> TRUE]
    /\ pc = [p \in Procs |-> "idle"]
    /\ arg = [p \in Procs |-> <<>>]
    /\ sock = [p \in Procs |-> None]
    /\ lockSocket = [p \in Procs |-> None]
    /\ result = [p \in Procs |-> "none"]
    /\ freed = [p \in Procs |-> <<>>]
    /\ sockets = [p \in Procs |-> [s \in Fds |-> FreeSlot]]
    /\ exclusiveBind \in BOOLEAN

\* Lines 15-16: sock = socket.socket(...); sock.setsockopt(SO_REUSEADDR, 1).
\* Both lie outside the try block.
AcquireCreate(p, port) ==
    /\ alive[p] /\ pc[p] = "idle"
    /\ HasFreeFd(p)
    /\ sockets' = [sockets EXCEPT ![p][NewFd(p)] =
                      [st |-> "open", reuse |-> TRUE, port |-> 0]]
    /\ sock' = [sock EXCEPT ![p] = NewFd(p)]
    /\ arg' = [arg EXCEPT ![p] = <<port>>]
    /\ pc' = [pc EXCEPT ![p] = "bind"]
    /\ result' = [result EXCEPT ![p] = "none"]
    /\ freed' = [freed EXCEPT ![p] = <<>>]
    /\ UNCHANGED <<alive, lockSocket, exclusiveBind>>

\* Line 15 fails (EMFILE, ENFILE, ENOBUFS): OSError leaves the function, since
\* the call is not inside the try block.
AcquireCreateFails(p, port) ==
    /\ alive[p] /\ pc[p] = "idle"
    /\ arg' = [arg EXCEPT ![p] = <<port>>]
    /\ result' = [result EXCEPT ![p] = "raised"]
    /\ freed' = [freed EXCEPT ![p] = <<>>]
    /\ UNCHANGED <<alive, pc, sock, lockSocket, sockets, exclusiveBind>>

\* Mutant: the socket is stored before the try block, so a failed call
\* leaves the (closed) socket in _lock_socket.
ExceptOSErrorAfterStore(p) ==
    /\ sockets' = CloseSocket(sockets, p, sock[p])
    /\ lockSocket' = [lockSocket EXCEPT ![p] = sock[p]]
    /\ sock' = [sock EXCEPT ![p] = None]
    /\ pc' = [pc EXCEPT ![p] = "idle"]
    /\ result' = [result EXCEPT ![p] = "false"]
    /\ UNCHANGED <<alive, arg, freed, exclusiveBind>>

\* Mutant: a retry loop: after OSError the call goes back to bind with a
\* fresh socket instead of returning, so it waits for the holder to release.
ExceptOSErrorRetry(p) ==
    /\ sockets' = [sockets EXCEPT ![p][sock[p]] = [st |-> "open", reuse |-> TRUE, port |-> 0]]
    /\ pc' = [pc EXCEPT ![p] = "bind"]
    /\ UNCHANGED <<alive, arg, sock, lockSocket, result, freed, exclusiveBind>>

\* Mutant: the handler closes and clears _lock_socket along with sock.
ExceptOSErrorDropsLock(p) ==
    /\ sockets' = [sockets EXCEPT ![p] = [f \in Fds |->
                      IF f = sock[p] \/ f = lockSocket[p] THEN FreeSlot ELSE sockets[p][f]]]
    /\ lockSocket' = [lockSocket EXCEPT ![p] = None]
    /\ sock' = [sock EXCEPT ![p] = None]
    /\ pc' = [pc EXCEPT ![p] = "idle"]
    /\ result' = [result EXCEPT ![p] = "false"]
    /\ UNCHANGED <<alive, arg, freed, exclusiveBind>>

\* Mutant: the handler returns False without closing the socket.
ExceptOSErrorWithoutClose(p) ==
    /\ sock' = [sock EXCEPT ![p] = None]
    /\ pc' = [pc EXCEPT ![p] = "idle"]
    /\ result' = [result EXCEPT ![p] = "false"]
    /\ UNCHANGED <<alive, arg, lockSocket, freed, sockets, exclusiveBind>>

\* Lines 22-24: except OSError: sock.close(); return False.
ExceptOSError(p) ==
    /\ sockets' = CloseSocket(sockets, p, sock[p])
    /\ sock' = [sock EXCEPT ![p] = None]
    /\ pc' = [pc EXCEPT ![p] = "idle"]
    /\ result' = [result EXCEPT ![p] = "false"]
    /\ UNCHANGED <<alive, arg, lockSocket, freed, exclusiveBind>>

\* An exception that is no OSError leaves the function: no handler runs, the
\* frame and its local sock are dropped, the socket is left open.
Propagate(p) ==
    /\ sock' = [sock EXCEPT ![p] = None]
    /\ pc' = [pc EXCEPT ![p] = "idle"]
    /\ result' = [result EXCEPT ![p] = "raised"]
    /\ UNCHANGED <<alive, arg, lockSocket, freed, sockets, exclusiveBind>>

\* bind succeeded on port q: on to line 19.
BindOk(p, q) ==
    /\ sockets' = [sockets EXCEPT ![p][sock[p]].st = "bound", ![p][sock[p]].port = q]
    /\ pc' = [pc EXCEPT ![p] = "listen"]
    /\ UNCHANGED <<alive, arg, sock, lockSocket, result, freed, exclusiveBind>>

\* Line 18: sock.bind(("127.0.0.1", port)).
AcquireBind(p) ==
    /\ alive[p] /\ pc[p] = "bind"
    /\ LET port == arg[p][1]
           s == sock[p]
       IN  IF ~ValidPort(port) THEN Propagate(p)
           ELSE IF PermissionDenied(port) THEN ExceptOSError(p)
           ELSE IF port = 0
                THEN IF EphemeralChoices(p, s) = {} THEN ExceptOSError(p)
                     ELSE \E e \in EphemeralChoices(p, s) : BindOk(p, e)
           ELSE IF BindConflict(p, s, port) THEN ExceptOSError(p)
           ELSE BindOk(p, port)

\* Mutant: the "global _lock_socket" declaration is missing, so line 20
\* assigns a local variable and the module global stays as it was.
StoreInLocalAndReturnTrue(p) ==
    /\ sockets' = [sockets EXCEPT ![p][sock[p]].st = "listening"]
    /\ sock' = [sock EXCEPT ![p] = None]
    /\ pc' = [pc EXCEPT ![p] = "idle"]
    /\ result' = [result EXCEPT ![p] = "true"]
    /\ UNCHANGED <<alive, arg, lockSocket, freed, exclusiveBind>>

\* Mutant: the socket stored so far is closed before it is replaced.
StoreClosingPreviousAndReturnTrue(p) ==
    /\ sockets' = [s \in Procs |-> [f \in Fds |->
                      IF s = p /\ f = sock[p] THEN [sockets[p][f] EXCEPT !.st = "listening"]
                      ELSE IF s = p /\ f = lockSocket[p] THEN FreeSlot
                      ELSE sockets[s][f]]]
    /\ lockSocket' = [lockSocket EXCEPT ![p] = sock[p]]
    /\ sock' = [sock EXCEPT ![p] = None]
    /\ pc' = [pc EXCEPT ![p] = "idle"]
    /\ result' = [result EXCEPT ![p] = "true"]
    /\ UNCHANGED <<alive, arg, freed, exclusiveBind>>

\* Lines 20-21: _lock_socket = sock; return True.
StoreAndReturnTrue(p) ==
    /\ sockets' = [sockets EXCEPT ![p][sock[p]].st = "listening"]
    /\ lockSocket' = [lockSocket EXCEPT ![p] = sock[p]]
    /\ sock' = [sock EXCEPT ![p] = None]
    /\ pc' = [pc EXCEPT ![p] = "idle"]
    /\ result' = [result EXCEPT ![p] = "true"]
    /\ UNCHANGED <<alive, arg, freed, exclusiveBind>>

\* Mutant: the listen call is left out; the bound socket is stored as it is.
AcquireWithoutListen(p) ==
    /\ alive[p] /\ pc[p] = "listen"
    /\ lockSocket' = [lockSocket EXCEPT ![p] = sock[p]]
    /\ sock' = [sock EXCEPT ![p] = None]
    /\ pc' = [pc EXCEPT ![p] = "idle"]
    /\ result' = [result EXCEPT ![p] = "true"]
    /\ UNCHANGED <<alive, arg, freed, sockets, exclusiveBind>>

\* Lines 19-21: sock.listen(1), then store and return.
AcquireListen(p) ==
    /\ alive[p] /\ pc[p] = "listen"
    /\ IF ListenConflict(p, sock[p]) THEN ExceptOSError(p)
       ELSE StoreAndReturnTrue(p)

\* Mutant: release forgets the close and only clears the reference.
ReleaseWithoutClose(p) ==
    /\ alive[p] /\ pc[p] = "idle"
    /\ lockSocket' = [lockSocket EXCEPT ![p] = None]
    /\ freed' = [freed EXCEPT ![p] = <<>>]
    /\ result' = [result EXCEPT ![p] = "released"]
    /\ arg' = [arg EXCEPT ![p] = <<>>]
    /\ UNCHANGED <<alive, pc, sock, sockets, exclusiveBind>>

\* Mutant: release closes the socket and keeps the reference.
ReleaseKeepsReference(p) ==
    /\ alive[p] /\ pc[p] = "idle"
    /\ IF lockSocket[p] # None
       THEN /\ sockets' = CloseSocket(sockets, p, lockSocket[p])
            /\ freed' = [freed EXCEPT ![p] = <<sockets[p][lockSocket[p]].port>>]
       ELSE /\ UNCHANGED sockets
            /\ freed' = [freed EXCEPT ![p] = <<>>]
    /\ result' = [result EXCEPT ![p] = "released"]
    /\ arg' = [arg EXCEPT ![p] = <<>>]
    /\ UNCHANGED <<alive, pc, sock, lockSocket, exclusiveBind>>

\* Mutant: release without the "is not None" test: None.close() raises.
ReleaseUnguarded(p) ==
    /\ alive[p] /\ pc[p] = "idle"
    /\ IF lockSocket[p] # None
       THEN /\ sockets' = CloseSocket(sockets, p, lockSocket[p])
            /\ lockSocket' = [lockSocket EXCEPT ![p] = None]
            /\ freed' = [freed EXCEPT ![p] = <<sockets[p][lockSocket[p]].port>>]
            /\ result' = [result EXCEPT ![p] = "released"]
       ELSE /\ UNCHANGED <<sockets, lockSocket>>
            /\ freed' = [freed EXCEPT ![p] = <<>>]
            /\ result' = [result EXCEPT ![p] = "raised"]
    /\ arg' = [arg EXCEPT ![p] = <<>>]
    /\ UNCHANGED <<alive, pc, sock, exclusiveBind>>

\* Mutant: the handle is host-wide state instead of per-process state:
\* release closes the lock socket of every process.
ReleaseEveryHandle(p) ==
    /\ alive[p] /\ pc[p] = "idle"
    /\ sockets' = [q \in Procs |-> [f \in Fds |->
                      IF f = lockSocket[q] THEN FreeSlot ELSE sockets[q][f]]]
    /\ lockSocket' = [q \in Procs |-> None]
    /\ freed' = [freed EXCEPT ![p] = IF lockSocket[p] # None
                                     THEN <<sockets[p][lockSocket[p]].port>> ELSE <<>>]
    /\ result' = [result EXCEPT ![p] = "released"]
    /\ arg' = [arg EXCEPT ![p] = <<>>]
    /\ UNCHANGED <<alive, pc, sock, exclusiveBind>>

\* Lines 27-32: release_gateway_lock().
Release(p) ==
    /\ alive[p] /\ pc[p] = "idle"
    /\ IF lockSocket[p] # None
       THEN /\ sockets' = CloseSocket(sockets, p, lockSocket[p])
            /\ lockSocket' = [lockSocket EXCEPT ![p] = None]
            /\ freed' = [freed EXCEPT ![p] = <<sockets[p][lockSocket[p]].port>>]
       ELSE /\ UNCHANGED <<sockets, lockSocket>>
            /\ freed' = [freed EXCEPT ![p] = <<>>]
    /\ result' = [result EXCEPT ![p] = "released"]
    /\ arg' = [arg EXCEPT ![p] = <<>>]
    /\ UNCHANGED <<alive, pc, sock, exclusiveBind>>

\* A socket object no variable refers to any more.
Unreferenced(p, s) ==
    /\ sockets[p][s].st # "free"
    /\ lockSocket[p] # s
    /\ sock[p] # s

\* The runtime finalizes an unreferenced socket object, which closes it:
\* at once under reference counting, at some later time, or never.
Finalize(p, s) ==
    /\ alive[p]
    /\ Unreferenced(p, s)
    /\ sockets' = CloseSocket(sockets, p, s)
    /\ UNCHANGED <<alive, pc, arg, sock, lockSocket, result, freed, exclusiveBind>>

\* The process dies (exit, crash, SIGKILL) at any point: the kernel closes
\* all its sockets (module docstring, line 4).  arg, result and freed keep
\* the record of the dead process's last call.
Crash(p) ==
    /\ alive[p]
    /\ alive' = [alive EXCEPT ![p] = FALSE]
    /\ sockets' = CloseAllOf(sockets, p)
    /\ lockSocket' = [lockSocket EXCEPT ![p] = None]
    /\ sock' = [sock EXCEPT ![p] = None]
    /\ pc' = [pc EXCEPT ![p] = "idle"]
    /\ UNCHANGED <<arg, result, freed, exclusiveBind>>

\* A new process starts in the slot: the module is imported, line 9 runs.
Start(p) ==
    /\ ~alive[p]
    /\ alive' = [alive EXCEPT ![p] = TRUE]
    /\ arg' = [arg EXCEPT ![p] = <<>>]
    /\ result' = [result EXCEPT ![p] = "none"]
    /\ freed' = [freed EXCEPT ![p] = <<>>]
    /\ UNCHANGED <<pc, sock, lockSocket, sockets, exclusiveBind>>

Next ==
    \E p \in Procs :
        \/ \E port \in PortArgs : AcquireCreate(p, port)
        \/ \E port \in PortArgs : AcquireCreateFails(p, port)
        \/ AcquireBind(p)
        \/ AcquireListen(p)
        \/ Release(p)
        \/ \E s \in Fds : Finalize(p, s)
        \/ Crash(p)
        \/ Start(p)

Spec == Init /\ [][Next]_vars

\* ---------------------------------------------------------------- the race
\* Processes that each call acquire once, on an ordinary port nobody has
\* bound, with no release and no termination: the calls overlap in every
\* possible way.
RaceAcquire(p) ==
    /\ result[p] = "none" /\ arg[p] = <<>>
    /\ \E port \in FreePorts : AcquireCreate(p, port) \/ AcquireCreateFails(p, port)

NextRace ==
    \E p \in Procs :
        \/ RaceAcquire(p)
        \/ AcquireBind(p)
        \/ AcquireListen(p)

SpecRace == Init /\ [][NextRace]_vars

\* ---------------------------------------------------------------- disciplined use
\* Callers that pass ports in 0..65535 only and call acquire only while
\* Unlocked (an acquire that returned true is followed by release() before
\* the next acquire).  No socket is ever left unreferenced, so the runtime
\* has nothing to finalize.
DisciplinedAcquire(p) ==
    /\ lockSocket[p] = None
    /\ \E port \in {a \in PortArgs : ValidPort(a)} :
          AcquireCreate(p, port) \/ AcquireCreateFails(p, port)

NextDisciplined ==
    \E p \in Procs :
        \/ DisciplinedAcquire(p)
        \/ AcquireBind(p)
        \/ AcquireListen(p)
        \/ Release(p)
        \/ Crash(p)
        \/ Start(p)

SpecDisciplined == Init /\ [][NextDisciplined]_vars


\* ---------------------------------------------------------------- helpers
\* The port p's stored lock socket is bound to.
LockPort(p) == sockets[p][lockSocket[p]].port

Locked(p) == lockSocket[p] # None

\* The processes whose (only) call is acquire(port).
Callers(port) == {p \in Procs : arg[p] = <<port>>}

\* Calls that got their socket: they returned a boolean.
Returned(port) == {p \in Callers(port) : pc[p] = "idle" /\ result[p] \in {"true", "false"}}

\* The descriptors of process p that are, in socket table tbl, bound to port.
BoundBy(tbl, p, port) == {s \in Fds : tbl[p][s].st \in {"bound", "listening"} /\ tbl[p][s].port = port}

\* The sockets bound to port other than the socket of p's call in progress.
OthersBoundOn(p, port) == BoundOn(port) \ {<<p, sock[p]>>}

\* A step of p's acquire call that asks the kernel for the port.
PortStep(p) == AcquireBind(p) \/ AcquireListen(p)

\* Any step of p's acquire call.
AcquireStep(p) ==
    \/ PortStep(p)
    \/ \E port \in PortArgs : AcquireCreate(p, port) \/ AcquireCreateFails(p, port)

\* The step of q's acquire(port), port an ordinary port, does not fail when
\* no other socket is bound to the port: bind goes on to listen, and listen
\* stores the listening socket and returns true.  A call whose two port
\* steps both find the port unbound therefore returns true.
SucceedsOnUnboundPort(q) ==
    (PortStep(q) /\ arg[q][1] \in FreePorts /\ OthersBoundOn(q, arg[q][1]) = {})
        => \/ pc'[q] = "listen" /\ sockets'[q][sock[q]].st = "bound"
                                /\ sockets'[q][sock[q]].port = arg[q][1]
           \/ /\ pc'[q] = "idle" /\ result'[q] = "true"
              /\ lockSocket'[q] = sock[q]
              /\ sockets'[q][sock[q]].st = "listening"
              /\ sockets'[q][sock[q]].port = arg[q][1]


\* ---------------------------------------------------------------- claims
\* C1: on a free port, once all overlapping acquire(P) calls have ended,
\* exactly one of the calls that returned has returned true and every other
\* one false, whatever the interleaving of their create/bind/listen steps
\* (a call whose socket() failed has raised and does not take part).
C1_ExactlyOneWinner ==
    \A port \in FreePorts :
        ((\A p \in Callers(port) : pc[p] = "idle") /\ Returned(port) # {})
            => Cardinality({p \in Returned(port) : result[p] = "true"}) = 1

\* Two calls on the same port have both returned: one true, one false.
C1_Witness ==
    \E p, q \in Procs : \E port \in FreePorts :
        /\ p # q
        /\ arg[p] = <<port>> /\ arg[q] = <<port>>
        /\ pc[p] = "idle" /\ pc[q] = "idle"
        /\ result[p] = "true" /\ result[q] = "false"
        /\ ~exclusiveBind

\* C2: two distinct processes never both have a stored lock handle for the
\* same port; a stored handle is always a listening socket.
C2_AtMostOneHolder ==
    /\ \A p \in Procs : Locked(p) => sockets[p][lockSocket[p]].st = "listening"
    /\ \A p, q \in Procs : (p # q /\ Locked(p) /\ Locked(q)) => LockPort(p) # LockPort(q)

\* One process is Locked on a port that another one asked for and did not get.
C2_Witness ==
    \E p, q \in Procs :
        /\ p # q
        /\ Locked(p) /\ ~Locked(q)
        /\ arg[q] = <<LockPort(p)>> /\ result[q] = "false"
        /\ alive[q]

\* C3: when the process that holds the lock on a port dies without calling
\* release(), none of its sockets stays bound, and an acquire of that port by
\* another process, made while no other socket is bound to the port, returns
\* true: no stale lock survives its holder.
C3_NoStaleLock ==
    [][/\ \A p \in Procs : Crash(p) => \A port \in FreePorts : BoundBy(sockets', p, port) = {}
       /\ \A p \in Procs : ~alive[p] => \A s \in Fds : sockets[p][s] = FreeSlot
       /\ \A q \in Procs :
             (\E p \in Procs : p # q /\ ~alive[p] /\ result[p] = "true" /\ arg[p] = arg[q])
                 => SucceedsOnUnboundPort(q)]_vars

\* p died holding the port (its last call, acquire(port), returned true and
\* it never released), and q's acquire(port) has since returned true.
C3_Witness ==
    \E p, q \in Procs : \E port \in FreePorts :
        /\ p # q
        /\ ~alive[p] /\ result[p] = "true" /\ arg[p] = <<port>>
        /\ alive[q] /\ result[q] = "true" /\ arg[q] = <<port>>
        /\ Locked(q) /\ LockPort(q) = port

C5_SecondAcquireFails ==
    [][\A a, b \in Procs :
          (/\ a # b
           /\ Locked(a) /\ sockets[a][lockSocket[a]].st = "listening"
           /\ ~Locked(b)
           /\ AcquireStep(b)
           /\ arg'[b] = <<LockPort(a)>>)
              => /\ PortStep(b) => (pc'[b] = "idle" /\ result'[b] = "false")
                 /\ result'[b] # "true"
                 /\ lockSocket'[b] = None
                 /\ lockSocket'[a] = lockSocket[a]
                 /\ sockets'[a] = sockets[a]]_vars

\* A holds the port; B asked for it, got false and is Unlocked with no socket.
C5_Witness ==
    \E a, b \in Procs :
        /\ a # b
        /\ Locked(a) /\ result[a] = "true" /\ arg[a] = <<LockPort(a)>>
        /\ alive[b] /\ ~Locked(b)
        /\ result[b] = "false" /\ arg[b] = <<LockPort(a)>>
        /\ \A s \in Fds : sockets[b][s] = FreeSlot

\* C6: acquire never raises: every call ends by returning a boolean.
C6_NeverRaises ==
    \A p \in Procs : arg[p] # <<>> => result[p] # "raised"

\* C7: no step of an acquire call with an out-of-range port returns true or
\* changes the stored handle.
C7_OutOfRangeNeverTrue ==
    [][\A p \in Procs :
          (AcquireStep(p) /\ arg'[p][1] \in OutOfRangePorts)
              => (result'[p] # "true" /\ lockSocket'[p] = lockSocket[p])]_vars

\* acquire(-1) or acquire(70000) got as far as bind and ended there: the
\* call raised and left its socket open.
C7_Witness ==
    \E p \in Procs : \E s \in Fds :
        /\ arg[p] # <<>> /\ arg[p][1] \in OutOfRangePorts
        /\ pc[p] = "idle" /\ result[p] = "raised"
        /\ Unreferenced(p, s) /\ sockets[p][s].st = "open"

\* C8: when an acquire call that created a socket ends without success, that
\* socket is closed by the time the call ends.
C8_FailedAcquireClosesSocket ==
    [][\A p \in Procs :
          (PortStep(p) /\ pc'[p] = "idle" /\ result'[p] # "true")
              => sockets'[p][sock[p]].st = "free"]_vars

C10_ReleaseWithoutLockIsNoOp ==
    [][\A p \in Procs :
          Release(p)
              => /\ result'[p] = "released"
                 /\ lockSocket'[p] = None
                 /\ ~Locked(p) => (sockets' = sockets /\ lockSocket' = lockSocket)]_vars

\* p's last call is a release() that closed nothing, while another process
\* holds a lock.
C10_Witness ==
    \E p, q \in Procs :
        /\ p # q
        /\ alive[p] /\ result[p] = "released" /\ freed[p] = <<>> /\ ~Locked(p)
        /\ Locked(q) /\ sockets[q][lockSocket[q]].st = "listening"

\* C11 as stated: a stored handle is an open socket listening on the port
\* passed to the acquire call that returned true, and a call that has
\* returned true has left the handle present.
C11_HandleListensOnPortPassed ==
    \A p \in Procs :
        /\ Locked(p) => sockets[p][lockSocket[p]].st = "listening"
        /\ (alive[p] /\ result[p] = "true")
              => (Locked(p) /\ LockPort(p) = arg[p][1])

\* C11 amended: a stored handle is an open listening socket; a call that has
\* returned true has left the handle present, listening on the port passed
\* when that port is not 0 and on a port the kernel chose when it is 0; and
\* as long as the handle refers to the same socket, that socket stays as it is.
C11_HandleListensOnBoundPort ==
    /\ [](\A p \in Procs :
            /\ Locked(p) => /\ sockets[p][lockSocket[p]].st = "listening"
                            /\ ValidPort(LockPort(p)) /\ LockPort(p) # 0
            /\ (alive[p] /\ result[p] = "true")
                  => /\ Locked(p)
                     /\ arg[p][1] # 0 => LockPort(p) = arg[p][1]
                     /\ arg[p][1] = 0 => LockPort(p) \in FreePorts)
    /\ [][\A p \in Procs :
            (Locked(p) /\ lockSocket'[p] = lockSocket[p])
                => sockets'[p][lockSocket[p]] = sockets[p][lockSocket[p]]]_vars

\* acquire(port) has returned true; since then an acquire of the port by
\* another process has failed, and the handle still listens on the port.
C11_Witness ==
    \E p, q \in Procs : \E port \in FreePorts :
        /\ p # q
        /\ alive[p] /\ result[p] = "true" /\ arg[p] = <<port>>
        /\ Locked(p) /\ LockPort(p) = port
        /\ sockets[p][lockSocket[p]].st = "listening"
        /\ \A s \in Fds \ {lockSocket[p]} : sockets[p][s] = FreeSlot
        /\ result[q] = "false" /\ arg[q] = <<port>>


\* The code of process p runs a step: a step of acquire, or release.
CodeStep(p) == AcquireStep(p) \/ Release(p)

C13_NeverWaits ==
    /\ [](\A p \in Procs :
            /\ (alive[p] /\ pc[p] = "bind") => ENABLED AcquireBind(p)
            /\ (alive[p] /\ pc[p] = "listen") => ENABLED AcquireListen(p)
            /\ (alive[p] /\ pc[p] = "idle") => ENABLED Release(p))
    /\ [][\A p \in Procs :
            /\ pc[p] = "bind" => pc'[p] \in {"bind", "listen", "idle"}
            /\ pc[p] = "listen" => pc'[p] \in {"listen", "idle"}
            /\ (pc[p] = "idle" /\ pc'[p] # "idle") => pc'[p] = "bind"
            /\ AcquireBind(p) => pc'[p] \in {"listen", "idle"}
            /\ AcquireListen(p) => pc'[p] = "idle"
            /\ Release(p) => (pc'[p] = "idle" /\ result'[p] = "released")]_vars

\* Process a holds the port and keeps holding it; the acquire of the same
\* port by b is in progress (its bind went through before a listened) and
\* its next step can be taken: it will return false.
C13_Witness ==
    \E a, b \in Procs :
        /\ a # b
        /\ Locked(a) /\ sockets[a][lockSocket[a]].st = "listening"
        /\ alive[b] /\ pc[b] = "listen" /\ arg[b] = <<LockPort(a)>>
        /\ sockets[b][sock[b]].port = LockPort(a)
        /\ ListenConflict(b, sock[b])
        /\ ENABLED AcquireListen(b)


\* C14: no step of an acquire call that does not return true, made by a
\* process that is Locked, changes the stored handle or the socket it
\* refers to: the process still holds the port it held, on the same open,
\* listening socket.
C14_FailedAcquireKeepsHandle ==
    [][\A p \in Procs :
          (Locked(p) /\ AcquireStep(p) /\ result'[p] # "true")
              => /\ lockSocket'[p] = lockSocket[p]
                 /\ sockets'[p][lockSocket[p]] = sockets[p][lockSocket[p]]
                 /\ sockets'[p][lockSocket[p]].st = "listening"]_vars

\* A Locked process has called acquire again and got false (the port asked
\* for is held by another process); it is still Locked on its own port.
C14_Witness ==
    \E p, q \in Procs :
        /\ p # q
        /\ alive[p] /\ pc[p] = "idle" /\ result[p] = "false"
        /\ Locked(p) /\ sockets[p][lockSocket[p]].st = "listening"
        /\ Locked(q) /\ arg[p] = <<LockPort(q)>>
        /\ LockPort(p) # LockPort(q)


\* C15: release() in process p leaves the handle and every socket of every
\* other process as they are; and the socket a process's handle refers to
\* changes (is closed) only in a step that is that process's own release or
\* its termination.
C15_ReleaseTouchesOwnLockOnly ==
    [][/\ \A p, q \in Procs :
             (p # q /\ Release(p))
                 => (lockSocket'[q] = lockSocket[q] /\ sockets'[q] = sockets[q])
       /\ \A q \in Procs :
             (Locked(q) /\ sockets'[q][lockSocket[q]] # sockets[q][lockSocket[q]])
                 => (Release(q) \/ Crash(q))]_vars

\* p's last call is a release() that closed its own lock socket, while q,
\* Locked before and after, still listens on its port.
C15_Witness ==
    \E p, q \in Procs :
        /\ p # q
        /\ alive[p] /\ result[p] = "released" /\ freed[p] # <<>> /\ ~Locked(p)
        /\ alive[q] /\ result[q] = "true" /\ Locked(q)
        /\ sockets[q][lockSocket[q]].st = "listening"
        /\ LockPort(q) # freed[p][1]


\* The sockets process p has open.
OpenSockets(p) == {s \in Fds : sockets[p][s].st # "free"}

TypeOK ==
    /\ alive \in [Procs -> BOOLEAN]
    /\ pc \in [Procs -> {"idle", "bind", "listen"}]
    /\ \A p \in Procs : arg[p] = <<>> \/ (Len(arg[p]) = 1 /\ arg[p][1] \in PortArgs)
    /\ sock \in [Procs -> Fds \cup {None}]
    /\ lockSocket \in [Procs -> Fds \cup {None}]
    /\ result \in [Procs -> Results]
    /\ \A p \in Procs : freed[p] = <<>> \/ (Len(freed[p]) = 1 /\ freed[p][1] \in FreePorts)
    /\ \A p \in Procs, s \in Fds : sockets[p][s].st \in {"free", "open", "bound", "listening"}
    /\ exclusiveBind \in BOOLEAN
====
